---------------------------- MODULE Spec2Model ----------------------------
(***************************************************************************)
(* Credential renewal and the SSE session of the RedInk web client.        *)
(*                                                                         *)
(* The browser runs everything on one event loop.  A step of this model is *)
(* one task of that loop together with the promise continuations it        *)
(* resumes: the arrival of a network response, the expiry of a timer, an   *)
(* event of an EventSource, or a call made by the page.                    *)
(***************************************************************************)
EXTENDS Integers, Sequences, FiniteSets, TLC

(* ------------------------------ bounds -------------------------------- *)

\* requests the page sends through apiClient
NReq == 2
\* logins and registrations the model follows
MaxLogins == 1
\* sends of the admin request that the model follows
MaxAdminSends == 3

(* ------------------------- program constants -------------------------- *)

\* isTokenExpiringSoon(token, thresholdSeconds = 300)
ThresholdSeconds == 300
\* SSEConnectionManager.maxReconnectAttempts
MaxReconnectAttempts == 3

(* ----------------------------- credentials ---------------------------- *)

\* Math.floor(Date.now() / 1000) at the moment a stream is opened
NowSec == 1000
\* a payload without "exp", or a token decodeToken cannot parse
NoExp == 0
\* null / no item in localStorage
NoToken == [by |-> "none", n |-> 0, exp |-> NoExp]
\* remaining lifetime of the credential found in localStorage at start-up
StartOffsets == {120, 300, 600}

StartTokens ==
    {NoToken, [by |-> "start", n |-> 0, exp |-> NoExp]}
        \cup {[by |-> "start", n |-> 0, exp |-> NowSec + o] : o \in StartOffsets}

\* the credential the server mints for the n-th call of one origin (a renewal
\* of the interceptor, of the stream, ..., or a login): ten minutes of lifetime
FreshToken(by, n) == [by |-> by, n |-> n, exp |-> NowSec + 600]

\* JavaScript truthiness of a string | null
Truthy(token) == token.by # "none"

\* decodeToken: the payload, or null (here FALSE in .ok) when it cannot be parsed
decodeToken(token) ==
    IF token.exp = NoExp THEN [ok |-> FALSE, exp |-> NoExp]
                         ELSE [ok |-> TRUE, exp |-> token.exp]

\* Date.now() taken for seconds
ExpiringSoonMillis(token, thresholdSeconds) ==
    IF ~Truthy(token) THEN TRUE
    ELSE LET payload == decodeToken(token) IN
         IF ~payload.ok \/ payload.exp = NoExp THEN TRUE
         ELSE (payload.exp - NowSec * 1000) < thresholdSeconds

isTokenExpiringSoon(token, thresholdSeconds) ==
    IF ~Truthy(token) THEN TRUE
    ELSE LET payload == decodeToken(token) IN
         IF ~payload.ok \/ payload.exp = NoExp THEN TRUE
         ELSE (payload.exp - NowSec) < thresholdSeconds

(* ------------------------------- urls --------------------------------- *)

\* a url is the sequence of its path segments
ApiUrls ==
    { <<"auth", "login">>, <<"auth", "register">>, <<"auth", "refresh">>,
      <<"auth", "logout">>, <<"generate">>, <<"auth", "me">> }

\* String.prototype.includes on path segments
Includes(url, pat) ==
    \E k \in 0..(Len(url) - Len(pat)) :
        \A j \in 1..Len(pat) : url[k + j] = pat[j]

NoAuthEndpoint(url) == FALSE

isAuthEndpoint(url) ==
    \/ Includes(url, <<"auth", "login">>)
    \/ Includes(url, <<"auth", "register">>)
    \/ Includes(url, <<"auth", "refresh">>)
    \/ Includes(url, <<"auth", "logout">>)

(* ------------------------------- state -------------------------------- *)

VARIABLES
    stored,            \* localStorage item redink_access_token
    accessToken,       \* useAuthStore().accessToken
    authPc,            \* the login / logout the store is waiting for ("idle": none)
    logins,            \* logins and registrations that succeeded
    loggedOut,         \* a logout has completed, and no login or registration since
    refreshPromise,    \* module slot of api/index.ts: 0 (null) or the call it awaits
    inflight,          \* POST /auth/refresh calls without a response yet
    calls,             \* POST /auth/refresh calls issued so far, by origin
    req,               \* the requests sent through apiClient
    adm,               \* the request sent through adminClient
    spc,               \* position of subscribeImageTask
    currentToken,      \* ensureValidToken's local currentToken while it awaits
    transports,        \* every EventSource constructed, oldest first
    eventSource,       \* SSEConnectionManager.eventSource: 0 (null) or an index
    reconnectAttempts, \* SSEConnectionManager.reconnectAttempts
    isClosed,          \* SSEConnectionManager.isClosed
    hasReceivedData,   \* SSEConnectionManager.hasReceivedData
    hpc,               \* where handleConnectionError is suspended ("idle": nowhere)
    hes,               \* the EventSource handleConnectionError was called with
    streamErrors,      \* calls of the caller's onStreamError
    errorMessage,      \* the message of the Error given to onStreamError
    cancelAt,          \* hpc at the first close() made from outside ("never": none)
    handleClosed,      \* the page has closed the EventSource subscribeImageTask returned
    last               \* the manager's last step, and the caller callback it invoked

credVars == <<stored, accessToken, authPc, logins, loggedOut>>
renewVars == <<inflight, calls>>
apiVars == <<refreshPromise, req>>
subVars == <<spc, currentToken>>
mgrVars == <<transports, eventSource, reconnectAttempts, isClosed, hasReceivedData,
             hpc, hes, streamErrors, errorMessage, cancelAt, handleClosed>>
vars == <<credVars, renewVars, apiVars, adm, subVars, mgrVars, last>>

Reqs == 1..NReq

\* who asks for a renewal: the interceptor of apiClient, the interceptor of
\* adminClient, handleConnectionError, ensureValidToken
Origins == {"api", "admin", "sse", "prev"}

RenewalOutcomes == {"ok", "semantic", "neterr"}

IdleReq ==
    [pc |-> "idle", url |-> <<>>, retry |-> FALSE, sends |-> 0, rid |-> 0,
     got |-> NoToken, status |-> 0]

\* no Error has been built
NoMessage == [template |-> "none", args |-> <<>>]

Step(op, arg, cb) == [op |-> op, arg |-> arg, cb |-> cb]

Init ==
    /\ stored \in StartTokens
    /\ accessToken = stored
    /\ authPc = "idle"
    /\ logins = 0
    /\ loggedOut = FALSE
    /\ refreshPromise = 0
    /\ inflight = {}
    /\ calls = [o \in Origins |-> 0]
    /\ req = [i \in Reqs |-> IdleReq]
    /\ adm = [pc |-> "idle", sends |-> 0, redirected |-> FALSE]
    /\ spc = "init"
    /\ currentToken = NoToken
    /\ transports = <<>>
    /\ eventSource = 0
    /\ reconnectAttempts = 0
    /\ isClosed = FALSE
    /\ hasReceivedData = FALSE
    /\ hpc = "idle"
    /\ hes = 0
    /\ streamErrors = 0
    /\ errorMessage = NoMessage
    /\ cancelAt = "never"
    /\ handleClosed = FALSE
    /\ last = Step("init", 0, "none")

(* ------------------------- the renewal call --------------------------- *)

\* the renewal calls of one owner that have no response yet
Pending(owner) == {c \in inflight : c.owner = owner}

\* a new POST /auth/refresh, made with plain axios, leaves for the server
IssueRenewal(owner) ==
    /\ calls' = [calls EXCEPT ![owner] = @ + 1]
    /\ inflight' = inflight \cup {[owner |-> owner, n |-> calls[owner] + 1]}

\* every renewal call issued so far
RenewCalls == calls["api"] + calls["admin"] + calls["sse"] + calls["prev"]

\* the credential the server mints when it answers call c with success
Minted(c) == FreshToken(c.owner, c.n)

\* refresh() of api/auth.ts: what localStorage holds after the response
RefreshKeepsOld(outcome, tok, cur) == cur

\* refresh() removes the item when it gets no credential
RefreshClearsOnFailure(outcome, tok, cur) == IF outcome = "ok" THEN tok ELSE NoToken

refreshApi(outcome, tok, cur) == IF outcome = "ok" THEN tok ELSE cur

\* useAuthStore.refreshToken after the response: the store, localStorage, and
\* what the caller gets (NoToken for null; threw when the error is rethrown)
StoreRefreshNoClear(outcome, tok, cur, acc) ==
    IF outcome = "ok"
    THEN [stored |-> refreshApi(outcome, tok, cur), accessToken |-> tok,
          result |-> tok, threw |-> FALSE]
    ELSE [stored |-> cur, accessToken |-> acc,
          result |-> NoToken, threw |-> outcome = "neterr"]

storeRefreshToken(outcome, tok, cur, acc) ==
    IF outcome = "ok"
    THEN [stored |-> refreshApi(outcome, tok, cur), accessToken |-> tok,
          result |-> tok, threw |-> FALSE]
    ELSE IF outcome = "semantic"
    THEN [stored |-> NoToken, accessToken |-> NoToken,
          result |-> NoToken, threw |-> FALSE]
    ELSE [stored |-> NoToken, accessToken |-> NoToken,
          result |-> NoToken, threw |-> TRUE]

(* --------------------- apiClient (api/index.ts) ----------------------- *)

\* the page sends request i (the headers the request interceptor attaches are
\* not followed)
ApiSend(i, url) ==
    /\ req[i].pc = "idle"
    /\ req' = [req EXCEPT ![i] =
                 [@ EXCEPT !.pc = "sent", !.url = url, !.sends = 1]]
    /\ UNCHANGED <<credVars, renewVars, refreshPromise, adm, subVars, mgrVars, last>>

\* a response that is not a 401: the caller gets it
ApiSettle(i, status) ==
    /\ req[i].pc = "sent"
    /\ status # 401
    /\ req' = [req EXCEPT ![i] =
                 [@ EXCEPT !.pc = IF status = 200 THEN "done" ELSE "rejected",
                           !.status = status]]
    /\ UNCHANGED <<credVars, renewVars, refreshPromise, adm, subVars, mgrVars, last>>

\* the response interceptor rejects a 401 without renewing
RejectsUnchanged(r) == r.retry \/ isAuthEndpoint(r.url)

\* the interceptor starts a renewal without looking at the slot
SlotAlwaysFree == TRUE

\* if (!refreshPromise)
SlotFree == refreshPromise = 0

\* a 401 arrives for request i: the response interceptor up to its await
Api401(i) ==
    /\ req[i].pc = "sent"
    /\ IF RejectsUnchanged(req[i])
       THEN /\ req' = [req EXCEPT ![i] = [@ EXCEPT !.pc = "rejected", !.status = 401]]
            /\ UNCHANGED <<refreshPromise, renewVars>>
       ELSE /\ IF SlotFree
               THEN /\ IssueRenewal("api")
                    /\ refreshPromise' = calls["api"] + 1
               ELSE UNCHANGED <<refreshPromise, renewVars>>
            /\ req' = [req EXCEPT ![i] =
                         [@ EXCEPT !.pc = "awaiting", !.rid = refreshPromise']]
    /\ UNCHANGED <<credVars, adm, subVars, mgrVars, last>>

\* what a request that awaited the renewal does with its result
ResumeNoMarker(r, newToken) ==
    IF ~Truthy(newToken)
    THEN [r EXCEPT !.pc = "rejected", !.status = 401, !.got = newToken]
    ELSE [r EXCEPT !.pc = "sent", !.sends = @ + 1, !.got = newToken]

\* the request is resubmitted whatever the renewal yielded
ResumeAlways(r, newToken) ==
    [r EXCEPT !.pc = "sent", !.retry = TRUE, !.sends = @ + 1, !.got = newToken]

Resume(r, newToken) ==
    IF ~Truthy(newToken)
    THEN [r EXCEPT !.pc = "rejected", !.status = 401, !.got = newToken]
    ELSE [r EXCEPT !.pc = "sent", !.retry = TRUE, !.sends = @ + 1, !.got = newToken]

\* the slot keeps the settled promise
SlotKept(c) == c.n

\* .finally(() => { refreshPromise = null }), which runs before any request
\* that awaited the promise resumes
SlotAfterSettle(c) == 0

\* the renewal started by the interceptor gets its response: the store's
\* refreshToken, the .catch and .finally of refreshPromise, and every request
\* that awaited it
ApiRenewalSettle(c, outcome) ==
    /\ c \in Pending("api")
    /\ LET r == storeRefreshToken(outcome, Minted(c), stored, accessToken)
       IN  /\ stored' = r.stored
           /\ accessToken' = r.accessToken
           /\ req' = [i \in Reqs |->
                        IF req[i].pc = "awaiting" /\ req[i].rid = c.n
                        THEN Resume(req[i], r.result) ELSE req[i]]
    /\ inflight' = inflight \ {c}
    /\ refreshPromise' = SlotAfterSettle(c)
    /\ UNCHANGED <<authPc, logins, loggedOut, calls, adm, subVars, mgrVars, last>>

\* the apiClient steps of the requests in R, sent to the urls in U
ApiSteps(R, U) ==
    \/ \E i \in R, url \in U : ApiSend(i, url)
    \/ \E i \in R, status \in {200, 500} : ApiSettle(i, status)
    \/ \E i \in R : Api401(i)
    \/ \E c \in inflight, outcome \in RenewalOutcomes : ApiRenewalSettle(c, outcome)

(* -------------------- adminClient (api/admin.ts) ---------------------- *)

\* the page sends the admin request
AdminSend ==
    /\ adm.pc = "idle"
    /\ adm' = [adm EXCEPT !.pc = "sent", !.sends = 1]
    /\ UNCHANGED <<credVars, renewVars, apiVars, subVars, mgrVars, last>>

\* a response that is not a 401: the caller gets it
AdminSettle(status) ==
    /\ adm.pc = "sent"
    /\ status # 401
    /\ adm' = [adm EXCEPT !.pc = IF status = 200 THEN "done" ELSE "rejected"]
    /\ UNCHANGED <<credVars, renewVars, apiVars, subVars, mgrVars, last>>

\* a 401 arrives: the response interceptor asks the store for a renewal
Admin401 ==
    /\ adm.pc = "sent"
    /\ adm.sends < MaxAdminSends
    /\ IssueRenewal("admin")
    /\ adm' = [adm EXCEPT !.pc = "awaiting"]
    /\ UNCHANGED <<credVars, apiVars, subVars, mgrVars, last>>

\* the renewal of the admin interceptor gets its response
AdminRenewalSettle(c, outcome) ==
    /\ c \in Pending("admin")
    /\ adm.pc = "awaiting"
    /\ LET r == storeRefreshToken(outcome, Minted(c), stored, accessToken)
       IN  /\ stored' = r.stored
           /\ accessToken' = r.accessToken
           /\ adm' = IF Truthy(r.result)
                     THEN [adm EXCEPT !.pc = "sent", !.sends = @ + 1]
                     ELSE [adm EXCEPT !.pc = "rejected", !.redirected = r.threw]
    /\ inflight' = inflight \ {c}
    /\ UNCHANGED <<authPc, logins, loggedOut, calls, apiVars, subVars, mgrVars, last>>

AdminNext ==
    \/ AdminSend
    \/ \E status \in {200, 500} : AdminSettle(status)
    \/ Admin401
    \/ \E c \in inflight, outcome \in RenewalOutcomes : AdminRenewalSettle(c, outcome)

(* ------------------- useAuthStore (stores/auth.ts) -------------------- *)

\* the page calls login or register (kind)
LoginStart(kind) ==
    /\ authPc = "idle"
    /\ logins < MaxLogins
    /\ authPc' = kind
    /\ UNCHANGED <<stored, accessToken, logins, loggedOut, renewVars, apiVars, adm, subVars,
                   mgrVars, last>>

\* the login or registration gets its response
LoginSettle(ok) ==
    /\ authPc \in {"login", "register"}
    /\ IF ok
       THEN /\ accessToken' = FreshToken("login", logins + 1)
            /\ stored' = FreshToken("login", logins + 1)
            /\ logins' = logins + 1
            /\ loggedOut' = FALSE
       ELSE UNCHANGED <<accessToken, stored, logins, loggedOut>>
    /\ authPc' = "idle"
    /\ UNCHANGED <<renewVars, apiVars, adm, subVars, mgrVars, last>>

\* the page calls logout
LogoutStart ==
    /\ authPc = "idle"
    /\ authPc' = "logout"
    /\ UNCHANGED <<stored, accessToken, logins, loggedOut, renewVars, apiVars, adm, subVars,
                   mgrVars, last>>

\* POST /auth/logout gets its response, or fails: the finally block
LogoutSettle ==
    /\ authPc = "logout"
    /\ accessToken' = NoToken
    /\ stored' = NoToken
    /\ authPc' = "idle"
    /\ loggedOut' = TRUE
    /\ UNCHANGED <<logins, renewVars, apiVars, adm, subVars, mgrVars, last>>

AuthNext ==
    \/ \E kind \in {"login", "register"} : LoginStart(kind)
    \/ \E ok \in BOOLEAN : LoginSettle(ok)
    \/ LogoutStart
    \/ LogoutSettle

(* ------------- subscribeImageTask and ensureValidToken ---------------- *)

\* new EventSource(url) with the credential localStorage holds in the url
Constructed(ts, token) == Append(ts, [state |-> "CONNECTING", token |-> token])

\* SSEConnectionManager.connect
Connect(token) ==
    /\ transports' = Constructed(transports, token)
    /\ eventSource' = Len(transports) + 1

\* ensureValidToken asks for a renewal before the stream is opened
NeedsPreventive(token) == Truthy(token) /\ isTokenExpiringSoon(token, ThresholdSeconds)

\* the page calls subscribeImageTask: ensureValidToken up to its await, or,
\* when it does not renew, on to the manager's first connect
Subscribe ==
    /\ spc = "init"
    /\ currentToken' = IF NeedsPreventive(stored) THEN stored ELSE NoToken
    /\ IF NeedsPreventive(stored)
       THEN /\ IssueRenewal("prev")
            /\ spc' = "preventive"
            /\ UNCHANGED <<transports, eventSource>>
       ELSE /\ Connect(stored)
            /\ spc' = "connected"
            /\ UNCHANGED renewVars
    /\ last' = Step("subscribe", 0, "none")
    /\ UNCHANGED <<credVars, apiVars, adm, reconnectAttempts, isClosed,
                   hasReceivedData, hpc, hes, streamErrors, errorMessage,
                   cancelAt, handleClosed>>

\* the preventive renewal gets its response: refresh() of api/auth.ts, then
\* the manager is built and connects, whatever the outcome
PreventiveSettle(c, outcome) ==
    /\ c \in Pending("prev")
    /\ spc = "preventive"
    /\ stored' = refreshApi(outcome, Minted(c), stored)
    /\ inflight' = inflight \ {c}
    /\ Connect(stored')
    /\ spc' = "connected"
    /\ last' = Step("preventive", c.n, "none")
    /\ currentToken' = NoToken
    /\ UNCHANGED <<accessToken, authPc, logins, loggedOut, calls, apiVars, adm,
                   reconnectAttempts, isClosed, hasReceivedData, hpc,
                   hes, streamErrors, errorMessage, cancelAt, handleClosed>>

(* ----------------------- SSEConnectionManager ------------------------- *)

Transports == 1..Len(transports)

\* EventSource.close(), or the failure of the connection: readyState becomes
\* CLOSED for good; the url of a closed EventSource is never used again, and
\* the model forgets the credential in it
\* close() leaves the EventSource as it was
ClosedAtNot(ts, t) == ts

ClosedAt(ts, t) ==
    IF t \in 1..Len(ts) THEN [ts EXCEPT ![t] = [state |-> "CLOSED", token |-> NoToken]]
                        ELSE ts

\* close() sets the flag and leaves the EventSource alone
CloseFlagOnly(ts) ==
    /\ isClosed' = TRUE
    /\ transports' = ts
    /\ eventSource' = eventSource

\* SSEConnectionManager.close on the transports ts
Close(ts) ==
    /\ isClosed' = TRUE
    /\ transports' = ClosedAt(ts, eventSource)
    /\ eventSource' = 0

\* the server accepts the stream: readyState OPEN (no onopen handler is set)
TransportOpen(t) ==
    /\ t \in Transports
    /\ transports[t].state = "CONNECTING"
    /\ transports' = [transports EXCEPT ![t] = [@ EXCEPT !.state = "OPEN"]]
    /\ last' = Step("open", t, "none")
    /\ UNCHANGED <<credVars, renewVars, apiVars, adm, subVars, eventSource,
                   reconnectAttempts, isClosed, hasReceivedData, hpc, hes,
                   streamErrors, errorMessage, cancelAt, handleClosed>>

PayloadKinds == {"progress", "complete", "error"}

CallbackOf(kind) ==
    IF kind = "progress" THEN "onProgress"
    ELSE IF kind = "complete" THEN "onComplete" ELSE "onError"

\* the error listener acts on every event of type error
ErrorListenerActsAlways(data) == TRUE

\* the error listener: if (e.data); "none" is the undefined data of an error
\* event that the EventSource fires itself
ErrorListenerActs(data) == data # "none"

\* the listener of an event of this type sets hasReceivedData and parses
ListenerActs(kind, data) == kind # "error" \/ ErrorListenerActs(data)

\* a progress, complete or error event that carries a body (JSON or not)
Payload(t, kind, body) ==
    /\ t \in Transports
    /\ transports[t].state = "OPEN"
    /\ hasReceivedData' = (hasReceivedData \/ ListenerActs(kind, body))
    /\ last' = Step(kind, t, IF ListenerActs(kind, body) /\ body = "json"
                              THEN CallbackOf(kind) ELSE "none")
    /\ UNCHANGED <<credVars, renewVars, apiVars, adm, subVars, transports,
                   eventSource, reconnectAttempts, isClosed, hpc, hes,
                   streamErrors, errorMessage, cancelAt, handleClosed>>

\* the finish listener closes the manager
FinishCloses(how) == how = "ok"

\* a finish event: how is "ok", "garbage" (JSON.parse throws) or "throws"
\* (the caller's onFinish throws)
Finish(t, how) ==
    /\ t \in Transports
    /\ transports[t].state = "OPEN"
    /\ hasReceivedData' = TRUE
    /\ IF FinishCloses(how)
       THEN Close(transports)
       ELSE UNCHANGED <<transports, eventSource, isClosed>>
    /\ last' = Step("finish", t, IF how = "garbage" THEN "none" ELSE "onFinish")
    /\ UNCHANGED <<credVars, renewVars, apiVars, adm, subVars, reconnectAttempts,
                   hpc, hes, streamErrors, errorMessage, cancelAt, handleClosed>>

\* buildErrorMessage: the template chosen, and the values interpolated into it
buildErrorMessage ==
    IF reconnectAttempts >= MaxReconnectAttempts
    THEN [template |-> "retried", args |-> <<reconnectAttempts>>]
    ELSE [template |-> "generic", args |-> <<>>]

\* handleConnectionError may still renew and reconnect
MayReconnectLoose == reconnectAttempts <= MaxReconnectAttempts

MayReconnect == reconnectAttempts < MaxReconnectAttempts

\* the closed branch of handleConnectionError renews whatever was received
GracefulNever == FALSE

GracefulClose == hasReceivedData

\* every readyState is handled like CLOSED
TerminalStateAny(readyState) == TRUE

\* the handler returns at once for every readyState
TerminalStateNever(readyState) == FALSE

\* handleConnectionError goes on only for readyState CLOSED: it returns at
\* once for CONNECTING
TerminalState(readyState) == readyState = "CLOSED"

\* the error event of EventSource t, whose readyState the event left as in ts:
\* the error listener, which finds no e.data (JSON.parse of it would throw),
\* and then handleConnectionError up to its first await, or to its end.  No transport is live while an
\* earlier call of the handler is suspended (OneHandler), so hpc and hes
\* describe the only call there is
HandleConnectionError(t, ts, op) ==
    /\ IF ~TerminalState(ts[t].state)
       THEN /\ transports' = ts
            /\ last' = Step(op, t, "none")
            /\ UNCHANGED <<renewVars, eventSource, isClosed, hpc, hes, streamErrors, errorMessage>>
       ELSE IF GracefulClose \/ ErrorListenerActs("none")
       THEN /\ Close(ts)
            /\ last' = Step(op, t, "none")
            /\ UNCHANGED <<renewVars, hpc, hes, streamErrors, errorMessage>>
       ELSE IF MayReconnect
       THEN /\ IssueRenewal("sse")
            /\ hpc' = "refreshing"
            /\ hes' = t
            /\ transports' = ts
            /\ last' = Step(op, t, "none")
            /\ UNCHANGED <<eventSource, isClosed, streamErrors, errorMessage>>
       ELSE /\ streamErrors' = streamErrors + 1
            /\ errorMessage' = buildErrorMessage
            /\ Close(ts)
            /\ last' = Step(op, t, "onStreamError")
            /\ UNCHANGED <<renewVars, hpc, hes>>
    /\ hasReceivedData' = (hasReceivedData \/ ErrorListenerActs("none"))
    /\ UNCHANGED <<credVars, apiVars, adm, subVars, reconnectAttempts,
                   cancelAt, handleClosed>>

\* the network drops and the EventSource reconnects by itself: an error event
\* while readyState is CONNECTING
Transient(t) ==
    /\ t \in Transports
    /\ transports[t].state \in {"OPEN", "CONNECTING"}
    /\ HandleConnectionError(
          t, [transports EXCEPT ![t] = [@ EXCEPT !.state = "CONNECTING"]], "transient")

\* the server refuses the stream (or a reconnection of it): the EventSource
\* fails, readyState CLOSED, and fires its one last error event
TerminalClose(t) ==
    /\ t \in Transports
    /\ transports[t].state = "CONNECTING"
    /\ HandleConnectionError(t, ClosedAt(transports, t), "terminalClose")

\* the handler reconnects whatever refreshToken() returned
ReconnectsWithAnything(newToken) == TRUE

\* if (newToken)
ReconnectsWith(newToken) == Truthy(newToken)

\* the renewal asked by handleConnectionError gets its response:
\* SSEConnectionManager.refreshToken (an error becomes null), then the
\* handler up to its delay, or to its end
SseRenewalSettle(c, outcome) ==
    /\ c \in Pending("sse")
    /\ hpc = "refreshing"
    /\ LET r == storeRefreshToken(outcome, Minted(c), stored, accessToken)
       IN  /\ stored' = r.stored
           /\ accessToken' = r.accessToken
           /\ IF ReconnectsWith(r.result)
              THEN /\ reconnectAttempts' = reconnectAttempts + 1
                   /\ transports' = ClosedAt(transports, hes)
                   /\ hpc' = "delay"
                   /\ last' = Step("sseRenewed", c.n, "none")
                   /\ UNCHANGED <<eventSource, isClosed, streamErrors, errorMessage>>
              ELSE /\ streamErrors' = streamErrors + 1
                   /\ errorMessage' = buildErrorMessage
                   /\ Close(transports)
                   /\ hpc' = "idle"
                   /\ last' = Step("sseRenewFailed", c.n, "onStreamError")
                   /\ UNCHANGED reconnectAttempts
    /\ inflight' = inflight \ {c}
    /\ UNCHANGED <<authPc, logins, loggedOut, calls, apiVars, adm, subVars, hasReceivedData,
                   hes, cancelAt, handleClosed>>

\* the handler connects again after its delay
ReconnectsAlways == TRUE

ReconnectsAfterDelay == ~isClosed

\* the 1000 ms of handleConnectionError have passed
DelayElapsed ==
    /\ hpc = "delay"
    /\ IF ReconnectsAfterDelay
       THEN Connect(stored)
       ELSE UNCHANGED <<transports, eventSource>>
    /\ hpc' = "idle"
    /\ last' = Step("delayElapsed", 0, "none")
    /\ UNCHANGED <<credVars, renewVars, apiVars, adm, subVars, reconnectAttempts,
                   isClosed, hasReceivedData, hes, streamErrors, errorMessage,
                   cancelAt, handleClosed>>

\* SSEConnectionManager.close called from outside the manager
Cancel ==
    /\ spc = "connected"
    /\ Close(transports)
    /\ cancelAt' = IF cancelAt = "never" THEN hpc ELSE cancelAt
    /\ last' = Step("cancel", 0, "none")
    /\ UNCHANGED <<credVars, renewVars, apiVars, adm, subVars, reconnectAttempts,
                   hasReceivedData, hpc, hes, streamErrors, errorMessage,
                   handleClosed>>

\* the page closes the EventSource that subscribeImageTask returned
HandleClose ==
    /\ spc = "connected"
    /\ transports' = ClosedAt(transports, 1)
    /\ handleClosed' = TRUE
    /\ last' = Step("handleClose", 1, "none")
    /\ UNCHANGED <<credVars, renewVars, apiVars, adm, subVars, eventSource,
                   reconnectAttempts, isClosed, hasReceivedData, hpc, hes,
                   streamErrors, errorMessage, cancelAt>>

\* handleConnectionError is suspended only while every transport is closed
OneHandler ==
    hpc # "idle" => \A t \in Transports : transports[t].state = "CLOSED"

\* the steps of subscribeImageTask and of the manager it builds, the calls of
\* close() included
ManagerNext ==
    \/ Subscribe
    \/ \E c \in inflight, outcome \in RenewalOutcomes : PreventiveSettle(c, outcome)
    \/ \E t \in Transports : TransportOpen(t)
    \/ \E t \in Transports, kind \in PayloadKinds, body \in {"json", "garbage"} :
          Payload(t, kind, body)
    \/ \E t \in Transports, how \in {"ok", "garbage", "throws"} : Finish(t, how)
    \/ \E t \in Transports : Transient(t)
    \/ \E t \in Transports : TerminalClose(t)
    \/ \E c \in inflight, outcome \in RenewalOutcomes : SseRenewalSettle(c, outcome)
    \/ DelayElapsed
    \/ Cancel

StreamNext == ManagerNext \/ HandleClose

(* --------------------------- specifications --------------------------- *)

\* the whole client: one request through apiClient to a business endpoint,
\* the admin request, the store, and one stream.  (When the admin interceptor
\* sets window.location.href the page is about to be replaced; the steps the
\* page could still take before that are followed as if it stayed.)
NextAll ==
    \/ ApiSteps({1}, {<<"generate">>})
    \/ AdminNext
    \/ AuthNext
    \/ StreamNext

SpecAll == Init /\ [][NextAll]_vars

\* everything that writes the credential while a stream is kept alive: one
\* request through apiClient to a business endpoint, the store, one stream
Next ==
    \/ ApiSteps({1}, {<<"generate">>})
    \/ AuthNext
    \/ StreamNext

Spec == Init /\ [][Next]_vars

\* adminClient and the store
NextAdmin == AdminNext \/ AuthNext

SpecAdmin == Init /\ [][NextAdmin]_vars

\* apiClient alone, with every request and every url
NextApi == ApiSteps(Reqs, ApiUrls)

SpecApi == Init /\ [][NextApi]_vars

\* one stream, and the store's login and logout
NextStream == StreamNext \/ AuthNext

SpecStream == Init /\ [][NextStream]_vars

\* one stream whose handle the page leaves alone, and the store's login and
\* logout; every preventive and reactive renewal gets a response, the delay of
\* the handler elapses, and every transport the manager still holds drops and
\* at last fails for good
NextLive == ManagerNext \/ AuthNext

Fairness ==
    /\ WF_vars(\E c \in inflight, outcome \in RenewalOutcomes : PreventiveSettle(c, outcome))
    /\ WF_vars(\E c \in inflight, outcome \in RenewalOutcomes : SseRenewalSettle(c, outcome))
    /\ WF_vars(DelayElapsed)
    /\ \A t \in 1..(MaxReconnectAttempts + 1) :
          /\ WF_vars(t \in Transports /\ Transient(t))
          /\ SF_vars(t \in Transports /\ TerminalClose(t))

SpecLive == Init /\ [][NextLive]_vars /\ Fairness

(* ------------------------------ claims --------------------------------- *)

\* the requests that are waiting for the renewal the interceptor started
Awaiting == {i \in Reqs : req[i].pc = "awaiting"}

\* C1: requests of apiClient that get a 401 while the interceptor's renewal is
\* unsettled share that renewal: at most one call of the interceptor is in
\* flight, every waiting request waits for exactly that call, the interceptor
\* has issued one call per group of requests that waited together, and requests
\* that waited for the same call got the same result (one credential, or null).
C1_SingleFlight ==
    /\ Cardinality(Pending("api")) <= 1
    /\ \A i \in Awaiting : Pending("api") = {[owner |-> "api", n |-> req[i].rid]}
    /\ (Awaiting # {}) = (refreshPromise # 0)
    /\ calls["api"] = Cardinality({req[i].rid : i \in Reqs} \ {0})
    /\ \A i, j \in Reqs \ Awaiting :
          (req[i].rid # 0 /\ req[i].rid = req[j].rid) => req[i].got = req[j].got

\* two requests waited for the first call and were resubmitted with its credential
C1_Witness ==
    /\ calls["api"] = 1
    /\ \E i, j \in Reqs :
          /\ i # j
          /\ req[i].rid = 1 /\ req[j].rid = 1
          /\ req[i].pc = "sent" /\ req[j].pc = "sent"
          /\ req[i].got = FreshToken("api", 1) /\ req[j].got = FreshToken("api", 1)

\* C2 (as claimed): at most one renewal call is in flight in the whole process,
\* whoever started it.
C2_OneRenewalInFlight == Cardinality(inflight) <= 1

\* request i targets the login, register, refresh or logout endpoint
Exempt(i) ==
    req[i].url \in { <<"auth", "login">>, <<"auth", "register">>,
                     <<"auth", "refresh">>, <<"auth", "logout">> }

\* the response to request i arrives in this step
Answered(i) == req[i].pc = "sent" /\ req'[i].pc # "sent"

\* C3: a request of apiClient to the login, register, refresh or logout
\* endpoint is sent once and never waits for a renewal; the step that answers
\* it, 401 included, hands the answer to the caller and issues no renewal; and
\* the step in which a renewal call gets its response issues no renewal call.
C3_ExemptEndpoints ==
    /\ [](\A i \in Reqs : Exempt(i) =>
            /\ req[i].pc \in {"sent", "done", "rejected"}
            /\ req[i].sends = 1 /\ ~req[i].retry /\ req[i].rid = 0)
    /\ [][\A i \in Reqs : (Exempt(i) /\ Answered(i)) =>
            /\ req'[i].pc \in {"done", "rejected"}
            /\ calls' = calls /\ inflight' = inflight
            /\ refreshPromise' = refreshPromise]_vars
    /\ [][(inflight' # inflight /\ inflight' \subseteq inflight) => calls' = calls]_vars

\* a 401 from the refresh endpoint itself was handed to the caller
C3_Witness ==
    \E i \in Reqs :
        /\ req[i].url = <<"auth", "refresh">>
        /\ req[i].pc = "rejected" /\ req[i].status = 401
        /\ req[i].sends = 1 /\ RenewCalls = 0

\* C4: a request of apiClient is sent at most twice, the second time with the
\* retry marker; the step that answers a marked request, 401 included, hands
\* the answer to the caller, does not resubmit and issues no renewal.
C4_RetryOnce ==
    /\ [](\A i \in Reqs : req[i].sends <= 2 /\ (req[i].sends = 2 <=> req[i].retry))
    /\ [][\A i \in Reqs : (req[i].retry /\ Answered(i)) =>
            /\ req'[i].pc \in {"done", "rejected"}
            /\ req'[i].sends = req[i].sends
            /\ calls' = calls /\ inflight' = inflight
            /\ refreshPromise' = refreshPromise]_vars

\* a marked request got a second 401 and was rejected
C4_Witness ==
    \E i \in Reqs :
        /\ req[i].retry /\ req[i].sends = 2
        /\ req[i].pc = "rejected" /\ req[i].status = 401
        /\ Truthy(req[i].got)

\* three reconnects were made, each after a renewal that succeeded, and the
\* fourth transport failed too before any payload; nobody cancelled
Exhausted ==
    /\ reconnectAttempts = 3 /\ calls["sse"] = 3
    /\ Len(transports) = 4 /\ transports[4].state = "CLOSED"
    /\ ~hasReceivedData /\ cancelAt = "never"

\* C5: with a budget of 3 the manager counts at most 3 attempts, asks for at
\* most 3 renewals and builds at most 4 transports; onStreamError is called at
\* most once; and when the transport of the 3rd reconnect has failed as well,
\* onStreamError has been called once, the manager is closed, and no renewal
\* and no delay is pending.
C5_BudgetExhausted ==
    /\ reconnectAttempts <= 3 /\ calls["sse"] <= 3 /\ Len(transports) <= 4
    /\ streamErrors <= 1
    /\ Exhausted =>
          /\ streamErrors = 1 /\ isClosed /\ eventSource = 0
          /\ hpc = "idle" /\ Pending("sse") = {}

\* the failure of the 4th transport has just been reported to the caller
C5_Witness ==
    /\ Exhausted
    /\ last = Step("terminalClose", 4, "onStreamError")
    /\ streamErrors = 1

\* C6: when close() was first called from outside while handleConnectionError
\* was in its delay, the transport of that attempt is never built: the manager
\* has built as many transports as it counts attempts, all of them closed.
C6_CancelDuringDelay ==
    cancelAt = "delay" =>
        /\ Len(transports) = reconnectAttempts
        /\ eventSource = 0
        /\ \A t \in Transports : transports[t].state = "CLOSED"

\* the delay has elapsed after the cancel
C6_Witness ==
    /\ cancelAt = "delay"
    /\ hpc = "idle"
    /\ last.op = "delayElapsed"

\* C7: a step in which a transport fails for good while hasReceivedData is
\* true closes the manager and does nothing else: the attempt counter stays,
\* no renewal call is issued, the handler is not suspended (no delay), and no
\* callback of the caller is invoked.
C7_GracefulAfterData ==
    [][((\E t \in Transports : TerminalClose(t)) /\ hasReceivedData) =>
          /\ isClosed' /\ eventSource' = 0
          /\ reconnectAttempts' = reconnectAttempts
          /\ calls' = calls /\ inflight' = inflight
          /\ hpc' = hpc
          /\ streamErrors' = streamErrors /\ last'.cb = "none"]_vars

\* the transport of the first reconnect delivered payload and then failed
C7_Witness ==
    /\ last = Step("terminalClose", 2, "none")
    /\ hasReceivedData /\ isClosed
    /\ reconnectAttempts = 1 /\ calls["sse"] = 1
    /\ streamErrors = 0 /\ hpc = "idle" /\ cancelAt = "never"

\* seconds left to the credential in localStorage
Remaining == stored.exp - NowSec

\* subscribeImageTask is called in this step
Subscribing == spc = "init" /\ spc' # "init"

\* C8: ensureValidToken issues at most one renewal, and no transport exists
\* before that renewal has its response; called with a credential that
\* expires in 120 s it issues the renewal and builds no transport yet; called
\* with one that expires in 600 s it issues none and the first transport is
\* built at once.
C8_PreventiveRenewal ==
    /\ [](/\ calls["prev"] <= 1
          /\ (spc = "preventive") = (Pending("prev") # {})
          /\ spc = "preventive" => transports = <<>>
          /\ transports # <<>> => spc = "connected")
    /\ [][(Subscribing /\ Truthy(stored) /\ Remaining = 120) =>
            /\ spc' = "preventive" /\ transports' = <<>>
            /\ calls'["prev"] = 1
            /\ [owner |-> "prev", n |-> 1] \in inflight']_vars
    /\ [][(Subscribing /\ Truthy(stored) /\ Remaining = 600) =>
            /\ spc' = "connected" /\ Len(transports') = 1
            /\ calls'["prev"] = 0 /\ inflight' = inflight]_vars
    /\ [][calls["prev"] # calls'["prev"] => Subscribing]_vars

\* the renewal asked for the credential with 120 s left got its response (a
\* failure: the credential is still there) and the first transport was built
C8_Witness ==
    /\ last.op = "preventive"
    /\ stored = [by |-> "start", n |-> 0, exp |-> NowSec + 120]
    /\ calls["prev"] = 1 /\ Pending("prev") = {}
    /\ spc = "connected" /\ Len(transports) = 1

\* C9 (as claimed): every finish event closes the manager and leaves the
\* attempt counter as it was, and no step lowers the attempt counter.
C9_FinishKeepsAttempts ==
    /\ [][(\E t \in Transports, how \in {"ok", "garbage", "throws"} : Finish(t, how)) =>
            (isClosed' /\ reconnectAttempts' = reconnectAttempts)]_vars
    /\ [][reconnectAttempts' >= reconnectAttempts]_vars

\* C10 (as claimed): once isClosed is true it stays true, no transport is
\* built and handleConnectionError does not enter its reconnect delay.
C10_ClosedIsFinal ==
    [][isClosed =>
          /\ isClosed'
          /\ Len(transports') = Len(transports)
          /\ (hpc' = "delay" => hpc = "delay")]_vars

\* C11 (as claimed): the attempt counter is only raised in a state where
\* isClosed is false and hasReceivedData is false.
C11_AttemptsOnlyWhileLive ==
    [][reconnectAttempts' > reconnectAttempts => (~isClosed /\ ~hasReceivedData)]_vars

\* C12 (as claimed): the request sent through adminClient is sent at most
\* twice: once by the page and once more, silently, after a renewal.
C12_AdminRetryOnce == adm.sends <= 2

\* the interceptor's renewal gets a response without a credential in this step
RenewalYieldsNone ==
    \E c \in inflight, outcome \in {"semantic", "neterr"} : ApiRenewalSettle(c, outcome)

\* C13: when the renewal started by the interceptor of apiClient yields no
\* credential, every request that waited for it is rejected in that step with
\* its original 401, without having been sent again and without the retry
\* marker; and a request that was rejected is never sent again.
C13_NoCredentialNoRetry ==
    /\ [][RenewalYieldsNone =>
            \A i \in Awaiting :
                /\ req'[i].pc = "rejected" /\ req'[i].status = 401
                /\ req'[i].sends = req[i].sends /\ req'[i].sends = 1
                /\ ~req'[i].retry]_vars
    /\ [][\A i \in Reqs : req[i].pc = "rejected" => req'[i] = req[i]]_vars

\* two requests waited for a renewal that failed, and both were rejected with
\* their 401 after one send
C13_Witness ==
    /\ calls["api"] = 1 /\ inflight = {} /\ ~Truthy(stored)
    /\ \A i \in Reqs :
          /\ req[i].url = <<"generate">> /\ req[i].rid = 1
          /\ req[i].pc = "rejected" /\ req[i].status = 401
          /\ req[i].sends = 1 /\ ~req[i].retry

\* both REST clients and the store: one request through apiClient to a
\* business endpoint, and the admin request
NextRest == ApiSteps({1}, {<<"generate">>}) \/ NextAdmin

SpecRest == Init /\ [][NextRest]_vars

\* C14: useAuthStore.refreshToken, as its callers see it when the renewal
\* call gets its response.  Success: localStorage and the store hold the
\* credential the server returned, and the caller gets it (the interceptors
\* resubmit, apiClient with that credential).  Semantic failure: localStorage
\* and the store are cleared and the caller gets null (the interceptors reject,
\* and adminClient's catch block is not entered).  Transport error: the error
\* is thrown to the caller (adminClient's catch block is entered; the .catch of
\* apiClient's refreshPromise receives it and hands null to the requests).
C14_RenewOutcomes ==
    [][\A c \in inflight :
         /\ (AdminRenewalSettle(c, "ok") \/ ApiRenewalSettle(c, "ok")) =>
               /\ stored' = Minted(c) /\ accessToken' = Minted(c)
               /\ c.owner = "admin" =>
                     (adm'.pc = "sent" /\ adm'.sends = adm.sends + 1 /\ ~adm'.redirected)
               /\ c.owner = "api" =>
                     \A i \in Awaiting : req'[i].pc = "sent" /\ req'[i].got = Minted(c)
         /\ (AdminRenewalSettle(c, "semantic") \/ ApiRenewalSettle(c, "semantic")) =>
               /\ stored' = NoToken /\ accessToken' = NoToken
               /\ c.owner = "admin" => (adm'.pc = "rejected" /\ ~adm'.redirected)
               /\ c.owner = "api" =>
                     \A i \in Awaiting : req'[i].pc = "rejected" /\ req'[i].got = NoToken
         /\ AdminRenewalSettle(c, "neterr") =>
               (adm'.pc = "rejected" /\ adm'.redirected)
         /\ ApiRenewalSettle(c, "neterr") =>
               \A i \in Awaiting : req'[i].pc = "rejected" /\ req'[i].got = NoToken]_vars

\* a renewal of adminClient failed semantically after a login: the credential
\* of the login is gone and the admin request was rejected without a redirect
C14_Witness ==
    /\ logins = 1 /\ authPc = "idle"
    /\ calls["admin"] = 1 /\ inflight = {}
    /\ stored = NoToken /\ accessToken = NoToken
    /\ adm.pc = "rejected" /\ adm.sends = 1 /\ ~adm.redirected

\* request i stops waiting for the renewal in this step
Resumes(i) == req[i].pc = "awaiting" /\ req'[i].pc # "awaiting"

\* C15: the slot refreshPromise is null exactly when no renewal of the
\* interceptor is in flight; it is null in the state in which a request that
\* awaited it resumes, whatever the renewal yielded; and a 401 that the
\* interceptor handles when no renewal of its own is in flight issues a new
\* renewal call, for which the request then waits.
C15_SlotCleared ==
    /\ []((refreshPromise = 0) = (Pending("api") = {}))
    /\ [][\A i \in Reqs : Resumes(i) => refreshPromise' = 0]_vars
    /\ [][\A i \in Reqs :
            (Api401(i) /\ ~RejectsUnchanged(req[i]) /\ Pending("api") = {}) =>
                /\ calls'["api"] = calls["api"] + 1
                /\ req'[i].pc = "awaiting" /\ req'[i].rid = calls'["api"]
                /\ Pending("api")' = {[owner |-> "api", n |-> calls'["api"]]}]_vars

\* the first renewal failed and its request was rejected; the 401 of the other
\* request, handled later, started a second renewal
C15_Witness ==
    /\ calls["api"] = 2 /\ refreshPromise = 2
    /\ \E i, j \in Reqs :
          /\ req[i].pc = "rejected" /\ req[i].rid = 1 /\ ~Truthy(req[i].got)
          /\ req[j].pc = "awaiting" /\ req[j].rid = 2

\* the renewal asked by handleConnectionError fails in this step
SseRenewalFails ==
    \E c \in inflight, outcome \in {"semantic", "neterr"} : SseRenewalSettle(c, outcome)

\* onStreamError was called although the budget was not used up: the renewal
\* of a reconnect failed
RenewalFailed == streamErrors > 0 /\ reconnectAttempts < MaxReconnectAttempts

\* C16: the step in which the renewal asked by handleConnectionError fails
\* (null from the store, or an error) calls onStreamError once and closes the
\* manager: no transport is live, the attempt counter stays, the handler is
\* not suspended in a delay and no renewal of the stream is pending.  After
\* that the manager stays closed, builds no transport, asks for no renewal and
\* calls onStreamError no more.
C16_RenewalFailureIsFinal ==
    /\ [][SseRenewalFails =>
            /\ streamErrors' = streamErrors + 1 /\ last'.cb = "onStreamError"
            /\ isClosed' /\ eventSource' = 0
            /\ \A t \in 1..Len(transports') : transports'[t].state = "CLOSED"
            /\ Len(transports') = Len(transports)
            /\ reconnectAttempts' = reconnectAttempts
            /\ reconnectAttempts' < MaxReconnectAttempts
            /\ hpc' = "idle" /\ calls' = calls /\ Pending("sse")' = {}]_vars
    /\ [][RenewalFailed =>
            /\ isClosed' /\ Len(transports') = Len(transports)
            /\ calls'["sse"] = calls["sse"] /\ hpc' = "idle"
            /\ streamErrors' = streamErrors
            /\ reconnectAttempts' = reconnectAttempts]_vars

\* the transport of the first reconnect failed before any payload and the
\* second renewal failed: the caller was told, one attempt counted
C16_Witness ==
    /\ last = Step("sseRenewFailed", 2, "onStreamError")
    /\ reconnectAttempts = 1 /\ calls["sse"] = 2 /\ Len(transports) = 2
    /\ streamErrors = 1 /\ isClosed /\ hpc = "idle"
    /\ ~hasReceivedData /\ cancelAt = "never"

\* C17: onStreamError is called at most once for one manager, always as the
\* first and only such call of a step; and from that call on the manager is
\* closed, holds no EventSource, every transport it built is closed, and
\* handleConnectionError is not suspended.
C17_StreamErrorOnce ==
    /\ [](/\ streamErrors <= 1
          /\ streamErrors = 1 =>
                /\ isClosed /\ eventSource = 0 /\ hpc = "idle"
                /\ \A t \in Transports : transports[t].state = "CLOSED")
    /\ [][streamErrors' # streamErrors =>
            (streamErrors = 0 /\ streamErrors' = 1 /\ last'.cb = "onStreamError")]_vars

\* the budget was used up, the caller was told once, and the page closed the
\* handle it holds afterwards
C17_Witness ==
    /\ streamErrors = 1 /\ reconnectAttempts = MaxReconnectAttempts
    /\ last = Step("handleClose", 1, "none")
    /\ isClosed /\ Len(transports) = 4

\* the preventive renewal of ensureValidToken fails in this step
PreventiveFails ==
    \E c \in inflight, outcome \in {"semantic", "neterr"} : PreventiveSettle(c, outcome)

\* C18: the step in which the preventive renewal fails (no usable credential,
\* or an error) leaves localStorage and the store as they are and builds the
\* first transport with the credential localStorage holds at that moment; the
\* manager is open, and neither onStreamError nor any other callback of the
\* caller is invoked.
C18_PreventiveFailureConnects ==
    [][PreventiveFails =>
          /\ stored' = stored /\ accessToken' = accessToken
          /\ transports = <<>> /\ Len(transports') = 1
          /\ transports'[1] = [state |-> "CONNECTING", token |-> stored]
          /\ eventSource' = 1 /\ ~isClosed' /\ spc' = "connected"
          /\ streamErrors' = 0 /\ last'.cb = "none"]_vars

\* a login succeeded while the preventive renewal was pending; the renewal
\* failed, and the first transport carries the credential of the login
C18_Witness ==
    /\ last = Step("preventive", 1, "none")
    /\ calls["prev"] = 1 /\ Pending("prev") = {}
    /\ stored = FreshToken("login", 1)
    /\ Len(transports) = 1
    /\ transports[1] = [state |-> "CONNECTING", token |-> FreshToken("login", 1)]
    /\ streamErrors = 0 /\ ~isClosed

\* C19: an error event of an EventSource that is reconnecting by itself
\* (readyState CONNECTING) changes nothing in the manager: the attempt counter,
\* hasReceivedData, isClosed and the EventSource the manager holds stay as they
\* are, no transport is built or closed, no renewal call is issued, the
\* handler is not suspended, the credential is not touched, and no callback
\* of the caller is invoked.
C19_TransientIgnored ==
    [][(\E t \in Transports : Transient(t)) =>
          /\ reconnectAttempts' = reconnectAttempts
          /\ hasReceivedData' = hasReceivedData
          /\ isClosed' = isClosed /\ eventSource' = eventSource
          /\ Len(transports') = Len(transports)
          /\ \A t \in Transports :
                (transports'[t].state = "CLOSED") = (transports[t].state = "CLOSED")
          /\ calls' = calls /\ inflight' = inflight /\ hpc' = hpc
          /\ stored' = stored /\ accessToken' = accessToken
          /\ streamErrors' = streamErrors /\ last'.cb = "none"]_vars

\* the transport of the first reconnect dropped before any payload and is
\* reconnecting by itself: the manager still holds it, one attempt counted
C19_Witness ==
    /\ last = Step("transient", 2, "none")
    /\ Len(transports) = 2 /\ transports[2].state = "CONNECTING"
    /\ eventSource = 2 /\ reconnectAttempts = 1 /\ calls["sse"] = 1
    /\ ~hasReceivedData /\ ~isClosed /\ hpc = "idle" /\ streamErrors = 0

\* C20 (as claimed): the transport that handleConnectionError builds after its
\* delay carries the credential that the renewal before the delay returned.
C20_ReconnectUsesRenewed ==
    [][(hpc = "delay" /\ Len(transports') > Len(transports)) =>
          transports'[Len(transports')].token = FreshToken("sse", calls["sse"])]_vars

\* the message has the number n interpolated into it
IncludesCount(message, n) == \E k \in 1..Len(message.args) : message.args[k] = n

\* C21 (as claimed): whenever onStreamError has been called, the message of
\* its Error includes the attempt counter of the manager.
C21_MessageHasCount ==
    streamErrors > 0 => IncludesCount(errorMessage, reconnectAttempts)

\* C22 (as claimed): the step of every finish event, whatever its body and
\* whatever onFinish does, leaves the manager closed, holding no EventSource,
\* with the transport that delivered the event closed.
C22_FinishCloses ==
    [][\A t \in Transports :
          (\E how \in {"ok", "garbage", "throws"} : Finish(t, how)) =>
              /\ isClosed' /\ eventSource' = 0
              /\ transports'[t].state = "CLOSED"]_vars

\* an error event that the EventSource fires itself, with no body
TransportError == \E t \in Transports : Transient(t) \/ TerminalClose(t)

\* an error event sent by the server, with a body
DomainError == \E t \in Transports, body \in {"json", "garbage"} : Payload(t, "error", body)

\* C23: the step of an error event without a body leaves hasReceivedData as it
\* was and does not call onError; onError is called only in the step of an
\* error event that carries a body, and such a step sets hasReceivedData; an
\* error event whose body parses does both.
C23_TransportErrorIsNotDomain ==
    /\ [][TransportError =>
            (hasReceivedData' = hasReceivedData /\ last'.cb # "onError")]_vars
    /\ [][(last'.cb = "onError" /\ last' # last) => DomainError]_vars
    /\ [][DomainError => hasReceivedData']_vars
    /\ [][(\E t \in Transports : Payload(t, "error", "json")) =>
            (hasReceivedData' /\ last'.cb = "onError")]_vars

\* the first transport failed before any payload: the handler asked for a
\* renewal, hasReceivedData is still false and onError was not called
C23_Witness ==
    /\ last = Step("terminalClose", 1, "none")
    /\ ~hasReceivedData /\ hpc = "refreshing" /\ hes = 1
    /\ Pending("sse") # {} /\ streamErrors = 0

\* C24: with maxReconnectAttempts = 3 the attempt counter of a manager stays
\* within 0..3, handleConnectionError asks for at most 3 renewals, and the
\* manager builds at most 4 transports: the first, and at most one for every
\* attempt it has counted, each of which followed a renewal of its own.
C24_BoundedAttempts ==
    /\ reconnectAttempts \in 0..3
    /\ calls["sse"] <= 3
    /\ Len(transports) <= 4
    /\ Len(transports) <= reconnectAttempts + 1
    /\ reconnectAttempts <= calls["sse"]

\* the transport of the third reconnect is open and delivers payload
C24_Witness ==
    /\ reconnectAttempts = 3 /\ calls["sse"] = 3
    /\ Len(transports) = 4 /\ transports[4].state = "OPEN"
    /\ eventSource = 4 /\ hasReceivedData /\ ~isClosed
    /\ last.op = "progress"

C26_HandleCloseStops ==
    [][handleClosed =>
          /\ Len(transports') = Len(transports)
          /\ streamErrors' = streamErrors
          /\ (last' = last \/ last'.cb = "none")]_vars

\* C27 (as claimed): once close() has been called on the manager from
\* outside, onStreamError is not called.
C27_NoErrorAfterCancel ==
    [][cancelAt # "never" => streamErrors' = streamErrors]_vars

\* the transports that are not closed
Live == {t \in Transports : transports[t].state # "CLOSED"}

\* C28: at most one transport of a manager is not closed, and it is the one
\* the manager holds; the transport the manager holds is the one built last;
\* and in the step that builds a transport every older one is closed already.
C28_OneLiveTransport ==
    /\ [](/\ Cardinality(Live) <= 1
          /\ Live \subseteq {eventSource}
          /\ eventSource \in {0, Len(transports)})
    /\ [][Len(transports') > Len(transports) =>
            /\ Live = {}
            /\ Len(transports') = Len(transports) + 1
            /\ eventSource' = Len(transports')]_vars

\* the manager has reconnected twice: the first two transports are closed and
\* the third, which the manager holds, is open
C28_Witness ==
    /\ Len(transports) = 3 /\ eventSource = 3
    /\ transports[1].state = "CLOSED" /\ transports[2].state = "CLOSED"
    /\ transports[3].state = "OPEN"
    /\ reconnectAttempts = 2 /\ ~isClosed

\* C29 (as claimed): from the completion of a logout until the next login or
\* registration succeeds, neither localStorage nor the store holds a credential.
C29_LoggedOutHoldsNothing ==
    loggedOut => (~Truthy(stored) /\ ~Truthy(accessToken))

\* C30 (as claimed): whenever no login, registration, logout or renewal is in
\* progress, the store's accessToken is the credential in localStorage.
C30_StoreMatchesStorage ==
    (authPc = "idle" /\ inflight = {}) => accessToken = stored

====
